---------------------------- MODULE Spec2Model ----------------------------
(***************************************************************************)
(* CryptoPlus.Util.padding and CryptoPlus.Util.util.                       *)
(*                                                                         *)
(* A byte string is a sequence of integers in 0..255.  A call of one of    *)
(* the five padding functions is one step: the step records the arguments  *)
(* of the call and what the call produced (a returned byte string, or the  *)
(* exception it raised, and what it printed).  The argument of an UNPAD    *)
(* call is either a fresh byte string or the byte string the preceding PAD *)
(* call of the same function returned.                                     *)
(*                                                                         *)
(* The optional argument length is <<>> when it is not supplied (None)     *)
(* and <<n>> when the caller supplies the integer n.                       *)
(*                                                                         *)
(* A Python int (the Counter's field c) is unbounded: it is kept as its    *)
(* minimal big-endian base-256 digit sequence (0 is <<>>).                 *)
(***************************************************************************)
EXTENDS Integers, Sequences, FiniteSets

VARIABLES scheme, direction, pad_data, length, ret, chained, orig, orig_length,
          nonce, constructed, c, ctr, calls

padvars == <<scheme, direction, pad_data, length, ret, chained, orig, orig_length>>
ctrvars == <<nonce, constructed, c, ctr, calls>>
vars == <<scheme, direction, pad_data, length, ret, chained, orig, orig_length,
          nonce, constructed, c, ctr, calls>>

---------------------------------------------------------------------------
(* Bounds of the model *)

\* longest fresh byte string handed to a padding function
MaxLen == 3
\* largest small block size (and the negative sizes down to -MaxBlock)
MaxBlock == 4
\* one large block size, whose pad amount can exceed a byte
BigBlock == 256
\* longest small nonce handed to Counter
MaxNonceLen == 3
\* most calls of one Counter
MaxCalls == 3

\* byte values of the fresh byte strings: zero, small trailer values, the marker
ByteVals == {0, 1, 2, 3, 128}
\* values random.randint(0, 255) is taken to return
RandVals == {0, 1, 255}
\* byte values of the nonces
NonceVals == {0, 1, 255}

Data == UNION {[1..k -> ByteVals] : k \in 0..MaxLen}

---------------------------------------------------------------------------
(* Program constants *)

PAD == 0
UNPAD == 1
\* largest value bytearray([x]) accepts
ByteMax == 255
\* width of the string Counter.__call__ returns
CtrBytes == 16

---------------------------------------------------------------------------
(* Python's bytes operations *)

Ok(v) == [status |-> "ok", value |-> v, out |-> ""]
Raise(e) == [status |-> e, value |-> <<>>, out |-> ""]
OkPrinting(v, msg) == [status |-> "ok", value |-> v, out |-> msg]

\* a % n with Python's sign convention (the result has the sign of n), n # 0
PyMod(a, n) == IF n > 0 THEN a % n ELSE 0 - ((0 - a) % (0 - n))

\* bytes([b]) * k : empty when k <= 0
Repeat(b, k) == IF k <= 0 THEN <<>> ELSE [i \in 1..k |-> b]

\* an index of a slice, normalised against a string of n bytes
ClampIndex(i, n) == IF i < 0 THEN (IF i + n < 0 THEN 0 ELSE i + n)
                    ELSE IF i > n THEN n ELSE i

\* s[start:stop]
PySlice(s, start, stop) ==
    SubSeq(s, ClampIndex(start, Len(s)) + 1, ClampIndex(stop, Len(s)))

\* s.rstrip(b'\x00'): s up to its last byte that is not zero
rstrip0(s) ==
    LET nonzero == {i \in 1..Len(s) : s[i] # 0}
    IN  IF nonzero = {} THEN <<>>
        ELSE SubSeq(s, 1, CHOOSE i \in nonzero : \A j \in nonzero : j <= i)

\* s.endswith(suffix)
endswith(s, suffix) ==
    /\ Len(suffix) <= Len(s)
    /\ SubSeq(s, Len(s) - Len(suffix) + 1, Len(s)) = suffix

\* s.count(bytes([b]), start, end)
count(s, b, start, end) ==
    Cardinality({i \in (ClampIndex(start, Len(s)) + 1)..ClampIndex(end, Len(s)) : s[i] = b})

---------------------------------------------------------------------------
(* padding.py *)

__bit_padding(to_pad, n) ==
    IF n = 0 THEN Raise("ZeroDivisionError")
    ELSE Ok(to_pad \o <<128>> \o Repeat(0, n - PyMod(Len(to_pad), n) - 1))

\* faulty variant: the stripped string is returned when no marker is found
__bit_padding_unpad_strip_always(padded) ==
    IF PySlice(rstrip0(padded), -1, Len(rstrip0(padded))) = <<128>>
    THEN Ok(PySlice(rstrip0(padded), 0, -1))
    ELSE Ok(rstrip0(padded))

__bit_padding_unpad(padded) ==
    IF PySlice(rstrip0(padded), -1, Len(rstrip0(padded))) = <<128>>
    THEN Ok(PySlice(rstrip0(padded), 0, -1))
    ELSE Ok(padded)

bit_padding(data, dir, len) ==
    IF dir = PAD
    THEN IF len = <<>> THEN Raise("ValueError") ELSE __bit_padding(data, len[1])
    ELSE IF dir = UNPAD THEN __bit_padding_unpad(data)
    ELSE Raise("ValueError")

__zeros_padding(toPad, n) ==
    IF n = 0 THEN Raise("ZeroDivisionError")
    ELSE LET pad_length == PyMod(n - Len(toPad), n)
         IN  Ok(toPad \o Repeat(0, pad_length))

\* faulty variant: one trailing zero byte is removed
__zeros_padding_unpad_one(padded) ==
    IF padded # <<>> /\ padded[Len(padded)] = 0
    THEN Ok(PySlice(padded, 0, -1))
    ELSE Ok(padded)

__zeros_padding_unpad(padded) == Ok(rstrip0(padded))

zeros_padding(data, dir, len) ==
    IF dir = PAD
    THEN IF len = <<>> THEN Raise("ValueError") ELSE __zeros_padding(data, len[1])
    ELSE IF dir = UNPAD THEN __zeros_padding_unpad(data)
    ELSE Raise("ValueError")

__PKCS7(to_pad, n) ==
    IF n = 0 THEN Raise("ZeroDivisionError")
    ELSE LET amount == n - PyMod(Len(to_pad), n)
         IN  IF amount \notin 0..ByteMax THEN Raise("ValueError")
             ELSE Ok(to_pad \o Repeat(amount, amount))

__PKCS7_unpad(padded) ==
    IF padded = <<>> THEN Raise("IndexError")
    ELSE LET pattern == padded[Len(padded)]
             n == pattern
         IN  IF endswith(padded, Repeat(pattern, n))
             THEN Ok(PySlice(padded, 0, 0 - n))
             ELSE OkPrinting(padded, "error: padding pattern not recognized")

PKCS7(data, dir, len) ==
    IF dir = PAD
    THEN IF len = <<>> THEN Raise("ValueError") ELSE __PKCS7(data, len[1])
    ELSE IF dir = UNPAD THEN __PKCS7_unpad(data)
    ELSE Raise("ValueError")

\* faulty variant: bytesToPad zero bytes before the trailer
__ANSI_X923_long_run(to_pad, n) ==
    IF n = 0 THEN Raise("ZeroDivisionError")
    ELSE LET bytesToPad == n - PyMod(Len(to_pad), n)
         IN  IF bytesToPad \notin 0..ByteMax THEN Raise("ValueError")
             ELSE Ok(to_pad \o Repeat(0, bytesToPad) \o <<bytesToPad>>)

__ANSI_X923(to_pad, n) ==
    IF n = 0 THEN Raise("ZeroDivisionError")
    ELSE LET bytesToPad == n - PyMod(Len(to_pad), n)
         IN  IF bytesToPad \notin 0..ByteMax THEN Raise("ValueError")
             ELSE Ok(to_pad \o Repeat(0, bytesToPad - 1) \o <<bytesToPad>>)

\* faulty variant: the message is formatted without error, printed, and padded returned
__ANSI_X923_unpad_passthrough(padded) ==
    IF padded = <<>> THEN Raise("IndexError")
    ELSE LET n == padded[Len(padded)]
         IN  IF count(padded, 0, 0 - n, -1) = n - 1
             THEN Ok(PySlice(padded, 0, 0 - n))
             ELSE OkPrinting(padded, "error: padding pattern not recognized")

\* the else branch evaluates padded.count(chr(0), ...) on a bytes object while
\* it formats its message: bytes.count refuses a str, nothing is printed
__ANSI_X923_unpad(padded) ==
    IF padded = <<>> THEN Raise("IndexError")
    ELSE LET n == padded[Len(padded)]
         IN  IF count(padded, 0, 0 - n, -1) = n - 1
             THEN Ok(PySlice(padded, 0, 0 - n))
             ELSE Raise("TypeError")

ANSI_X923(data, dir, len) ==
    IF dir = PAD
    THEN IF len = <<>> THEN Raise("ValueError") ELSE __ANSI_X923(data, len[1])
    ELSE IF dir = UNPAD THEN __ANSI_X923_unpad(data)
    ELSE Raise("ValueError")

\* random_pattern holds the values the calls of random.randint(0, 255) returned
__ISO_10126(toPad, n, random_pattern) ==
    IF n = 0 THEN Raise("ZeroDivisionError")
    ELSE LET bytes_to_pad == n - PyMod(Len(toPad), n)
         IN  IF bytes_to_pad \notin 0..ByteMax THEN Raise("ValueError")
             ELSE Ok(toPad \o random_pattern \o <<bytes_to_pad>>)

\* faulty variant: the trailer byte is kept
__ISO_10126_unpad_off_by_one(padded) ==
    IF padded = <<>> THEN Raise("IndexError")
    ELSE Ok(PySlice(padded, 0, Len(padded) - padded[Len(padded)] + 1))

__ISO_10126_unpad(padded) ==
    IF padded = <<>> THEN Raise("IndexError")
    ELSE Ok(PySlice(padded, 0, Len(padded) - padded[Len(padded)]))

ISO_10126(data, dir, len, random_pattern) ==
    IF dir = PAD
    THEN IF len = <<>> THEN Raise("ValueError") ELSE __ISO_10126(data, len[1], random_pattern)
    ELSE IF dir = UNPAD THEN __ISO_10126_unpad(data)
    ELSE Raise("ValueError")

\* how many times __ISO_10126 calls random.randint: range(0, bytes_to_pad - 1)
NumDraws(data, dir, len) ==
    IF dir = PAD /\ len # <<>> /\ len[1] # 0
    THEN LET k == len[1] - PyMod(Len(data), len[1]) - 1 IN IF k > 0 THEN k ELSE 0
    ELSE 0

\* the outcomes of k draws: every outcome for a short pattern, the constant
\* patterns for a long one
Draws(k) == IF k < MaxBlock THEN [1..k -> RandVals]
            ELSE {[i \in 1..k |-> b] : b \in RandVals}

---------------------------------------------------------------------------
(* util.py: a number is its minimal big-endian base-256 digit sequence *)

\* int.from_bytes(i, 'big'): leading zero bytes do not count
RECURSIVE string2number(_)
string2number(i) == IF i = <<>> THEN <<>>
                    ELSE IF i[1] = 0 THEN string2number(Tail(i))
                    ELSE i

\* i.to_bytes(n, 'big')
to_bytes(i, n) == IF Len(i) > n THEN Raise("OverflowError")
                  ELSE Ok(Repeat(0, n - Len(i)) \o i)

\* i.to_bytes((7 + i.bit_length()) // 8, 'big'): as many bytes as i has digits
number2string(i) == to_bytes(i, Len(i))

\* number2string(i) is evaluated first and its value dropped; it cannot raise
number2string_N(i, n) == to_bytes(i, n)

\* i + 1
RECURSIVE PlusOne(_)
PlusOne(i) == IF i = <<>> THEN <<1>>
              ELSE IF i[Len(i)] < 255
                   THEN SubSeq(i, 1, Len(i) - 1) \o <<i[Len(i)] + 1>>
                   ELSE PlusOne(SubSeq(i, 1, Len(i) - 1)) \o <<0>>

---------------------------------------------------------------------------
(* The calls *)

Schemes == {"bit_padding", "zeros_padding", "PKCS7", "ANSI_X923", "ISO_10126"}

BlockSizes == ((0 - MaxBlock)..MaxBlock) \cup {BigBlock}
Lengths == {<<>>} \cup {<<n>> : n \in BlockSizes}
\* 2 stands for every value that is neither PAD nor UNPAD
Directions == {PAD, UNPAD, 2}

\* the arguments of a call of function s: fresh ones (an UNPAD call is made without
\* a length or with one, which it ignores), or the string the preceding PAD call
\* of s returned.  The functions keep no state between calls, so a behaviour is
\* one call on fresh arguments, possibly followed by the UNPAD of its result
FreshArgs ==
    IF scheme = "none"
    THEN {a \in [data : Data, dir : Directions, len : Lengths, chained : {FALSE}] :
             a.dir = PAD \/ a.len \in {<<>>, <<MaxBlock>>}}
    ELSE {}

ChainedArgs(s) ==
    IF scheme = s /\ direction = PAD /\ ret.status = "ok"
    THEN {[data |-> ret.value, dir |-> UNPAD, len |-> <<>>, chained |-> TRUE]}
    ELSE {}

Args(s) == FreshArgs \cup ChainedArgs(s)

Record(s, a, r) ==
    /\ scheme' = s
    /\ direction' = a.dir
    /\ pad_data' = a.data
    /\ length' = a.len
    /\ ret' = r
    /\ chained' = a.chained
    /\ orig' = IF a.chained THEN pad_data ELSE <<>>
    /\ orig_length' = IF a.chained THEN length ELSE <<>>
    /\ UNCHANGED ctrvars

Call_bit_padding ==
    \E a \in Args("bit_padding") :
        Record("bit_padding", a, bit_padding(a.data, a.dir, a.len))

Call_zeros_padding ==
    \E a \in Args("zeros_padding") :
        Record("zeros_padding", a, zeros_padding(a.data, a.dir, a.len))

Call_PKCS7 ==
    \E a \in Args("PKCS7") :
        Record("PKCS7", a, PKCS7(a.data, a.dir, a.len))

Call_ANSI_X923 ==
    \E a \in Args("ANSI_X923") :
        Record("ANSI_X923", a, ANSI_X923(a.data, a.dir, a.len))

Call_ISO_10126 ==
    \E a \in Args("ISO_10126") :
        \E random_pattern \in Draws(NumDraws(a.data, a.dir, a.len)) :
            Record("ISO_10126", a, ISO_10126(a.data, a.dir, a.len, random_pattern))

\* Counter(initial_ctr): a str argument is refused, a bytes argument sets c
Nonces ==
    UNION {[1..k -> NonceVals] : k \in 0..MaxNonceLen}
      \cup {Repeat(255, CtrBytes), Repeat(255, CtrBytes - 1) \o <<254>>,
            <<0>> \o Repeat(255, CtrBytes), <<1>> \o Repeat(0, CtrBytes),
            Repeat(255, CtrBytes - 1)}

Counter_init ==
    /\ ~constructed
    /\ ctr.status = "none"
    /\ \E is_bytes \in BOOLEAN, initial_ctr \in Nonces :
          IF is_bytes
          THEN /\ constructed' = TRUE
               /\ nonce' = initial_ctr
               /\ c' = string2number(initial_ctr)
               /\ UNCHANGED <<ctr, calls>>
          ELSE /\ ctr' = Raise("TypeError")
               /\ UNCHANGED <<constructed, nonce, c, calls>>
    /\ UNCHANGED padvars

\* faulty variant: self.c += 1 comes before the conversion
Counter_call_increment_first ==
    /\ constructed
    /\ calls < MaxCalls
    /\ ctr' = number2string_N(PlusOne(c), CtrBytes)
    /\ c' = IF ctr'.status = "ok" THEN PlusOne(c) ELSE c
    /\ calls' = calls + 1
    /\ UNCHANGED <<nonce, constructed>>
    /\ UNCHANGED padvars

\* ctr(): to_bytes raises before self.c += 1 is reached
Counter_call ==
    /\ constructed
    /\ calls < MaxCalls
    /\ ctr' = number2string_N(c, CtrBytes)
    /\ c' = IF ctr'.status = "ok" THEN PlusOne(c) ELSE c
    /\ calls' = calls + 1
    /\ UNCHANGED <<nonce, constructed>>
    /\ UNCHANGED padvars

Init ==
    /\ scheme = "none"
    /\ direction = UNPAD
    /\ pad_data = <<>>
    /\ length = <<>>
    /\ ret = Raise("none")
    /\ chained = FALSE
    /\ orig = <<>>
    /\ orig_length = <<>>
    /\ nonce = <<>>
    /\ constructed = FALSE
    /\ c = <<>>
    /\ ctr = Raise("none")
    /\ calls = 0

Next ==
    \/ Call_bit_padding
    \/ Call_zeros_padding
    \/ Call_PKCS7
    \/ Call_ANSI_X923
    \/ Call_ISO_10126

Spec == Init /\ [][Next]_vars

NextCounter ==
    \/ Counter_init
    \/ Counter_call

SpecCounter == Init /\ [][NextCounter]_vars

---------------------------------------------------------------------------
(* Vocabulary of the properties *)

IsPadCall == scheme \in Schemes /\ direction = PAD
IsUnpadCall == scheme \in Schemes /\ direction = UNPAD
\* the PAD call was given a block size n >= 1
ValidLength == length # <<>> /\ length[1] >= 1
\* r = n - (len(d) mod n), for the PAD call of this state
PadAmount == length[1] - (Len(pad_data) % length[1])
\* the UNPAD call of this state undoes a PAD call that was given n >= 1
IsRoundTrip == IsUnpadCall /\ chained /\ orig_length # <<>> /\ orig_length[1] >= 1
\* the schemes that write r into a single trailer byte
TrailerSchemes == {"PKCS7", "ANSI_X923", "ISO_10126"}

IsPrefix(s, p) == Len(s) <= Len(p) /\ \A i \in 1..Len(s) : s[i] = p[i]

\* s is p without its trailing zero bytes
IsStripped(s, p) ==
    /\ IsPrefix(s, p)
    /\ s = <<>> \/ s[Len(s)] # 0
    /\ \A i \in (Len(s) + 1)..Len(p) : p[i] = 0

\* p without its last k bytes (empty when k >= len(p))
DropLast(p, k) == IF k >= Len(p) THEN <<>> ELSE [i \in 1..(Len(p) - k) |-> p[i]]

\* the last a bytes of p exist and are all equal to a, a being p's last byte
PKCS7Match(p) ==
    LET a == p[Len(p)]
    IN  a <= Len(p) /\ \A i \in (Len(p) - a + 1)..Len(p) : p[i] = a

\* the a - 1 bytes before the trailer byte a of p exist and are all zero
ANSIMatch(p) ==
    LET a == p[Len(p)]
    IN  a >= 1 /\ a <= Len(p) /\ \A i \in (Len(p) - a + 1)..(Len(p) - 1) : p[i] = 0

---------------------------------------------------------------------------
(* C1 *)

\* C1 as stated: for BitPadding, PKCS7, ANSI_X923 and ISO10126, every byte string
\* d and every block size n >= 1, pad(d, n) returns and unpad of what it returned
\* returns d.
C1_RoundTripEveryBlockSize ==
    scheme \in Schemes \ {"zeros_padding"} =>
        /\ IsPadCall /\ ValidLength => ret.status = "ok"
        /\ IsRoundTrip => ret.status = "ok" /\ ret.value = orig

\* C1 amended: the same, for the three trailer schemes only when the pad amount
\* r = n - (len(d) mod n) is at most 255 (for BitPadding for every n >= 1).
C1_RoundTrip ==
    scheme \in Schemes \ {"zeros_padding"} =>
        /\ IsPadCall /\ ValidLength /\ (scheme \in TrailerSchemes => PadAmount <= ByteMax)
              => ret.status = "ok"
        /\ IsRoundTrip => ret.status = "ok" /\ ret.value = orig

\* an aligned, non-empty d, padded by ISO_10126 with a non-zero filler byte, and
\* recovered
C1_Witness ==
    /\ IsRoundTrip /\ scheme = "ISO_10126"
    /\ orig # <<>> /\ Len(orig) % orig_length[1] = 0
    /\ Len(pad_data) = Len(orig) + 2 /\ pad_data[Len(orig) + 1] = 255
    /\ ret.value = orig

---------------------------------------------------------------------------
(* C2 *)

\* what C2 says a successful pad(d, n) looks like
PadLayout ==
    LET d == pad_data
        n == length[1]
        r == PadAmount
        v == ret.value
        added == IF scheme = "zeros_padding" /\ r = n THEN 0 ELSE r
    IN  /\ ret.status = "ok"
        /\ Len(v) = Len(d) + added
        /\ IsPrefix(d, v)
        /\ scheme = "bit_padding" =>
              v[Len(d) + 1] = 128 /\ \A i \in 2..r : v[Len(d) + i] = 0
        /\ scheme = "zeros_padding" => \A i \in 1..added : v[Len(d) + i] = 0
        /\ scheme = "PKCS7" => \A i \in 1..r : v[Len(d) + i] = r
        /\ scheme = "ANSI_X923" =>
              v[Len(v)] = r /\ \A i \in 1..(r - 1) : v[Len(d) + i] = 0
        /\ scheme = "ISO_10126" =>
              v[Len(v)] = r /\ \A i \in 1..(r - 1) : v[Len(d) + i] \in 0..255
        /\ Len(v) % n = 0
        /\ scheme # "zeros_padding" => Len(v) > Len(d)

\* C2 as stated: for every d and every block size n >= 1, pad(d, n) is d
\* followed by the scheme's r padding bytes; its length is a multiple of n and,
\* except for ZeroPadding, larger than len(d).
C2_LayoutEveryBlockSize == IsPadCall /\ ValidLength => PadLayout

\* C2 amended: the same, for PKCS7, ANSI_X923 and ISO10126 only when r <= 255.
C2_Layout ==
    IsPadCall /\ ValidLength /\ (scheme \in TrailerSchemes => PadAmount <= ByteMax)
        => PadLayout

\* ANSI_X923 appends a full block to an aligned, non-empty d
C2_Witness ==
    /\ IsPadCall /\ ValidLength /\ scheme = "ANSI_X923"
    /\ pad_data # <<>> /\ PadAmount = length[1] /\ length[1] = 3
    /\ ret.status = "ok" /\ Len(ret.value) = Len(pad_data) + 3

---------------------------------------------------------------------------
(* C3 *)

\* C3: PKCS7 unpad of a non-empty p whose last a bytes are not all equal to its
\* last byte a (or that has fewer than a bytes) ends in an error, not in a
\* returned byte string.
C3_PKCS7MismatchIsError ==
    scheme = "PKCS7" /\ IsUnpadCall /\ pad_data # <<>> /\ ~PKCS7Match(pad_data)
        => ret.status # "ok"

---------------------------------------------------------------------------
(* C4 *)

\* C4: ANSI_X923 unpad of a non-empty p whose a - 1 bytes before the trailer
\* byte a are not all zero (a = 0 and len(p) < a included) raises an error and
\* does not return p.
C4_ANSIMismatchIsError ==
    scheme = "ANSI_X923" /\ IsUnpadCall /\ pad_data # <<>> /\ ~ANSIMatch(pad_data)
        => ret.status \notin {"ok", "none"}

\* a trailer 2 preceded by a non-zero byte
C4_Witness ==
    /\ scheme = "ANSI_X923" /\ IsUnpadCall
    /\ Len(pad_data) = 3 /\ pad_data[3] = 2 /\ pad_data[2] = 1
    /\ ret.status = "TypeError"

---------------------------------------------------------------------------
(* C5 *)

\* C5: a PAD call with no block size, or with a block size <= 0, ends in an
\* error and returns no byte string, whatever the scheme.
C5_InvalidLengthFails ==
    IsPadCall /\ (length = <<>> \/ length[1] <= 0) => ret.status # "ok"

---------------------------------------------------------------------------
(* C6 *)

\* C6: for every d and n >= 1, ZeroPadding's unpad(pad(d, n)) is d without its
\* trailing zero bytes; it is d exactly when d is empty or ends in a non-zero
\* byte.
C6_ZeroLossyRoundTrip ==
    /\ scheme = "zeros_padding" /\ IsPadCall /\ ValidLength => ret.status = "ok"
    /\ scheme = "zeros_padding" /\ IsRoundTrip =>
          /\ ret.status = "ok"
          /\ IsStripped(ret.value, orig)
          /\ ret.value = orig <=> (orig = <<>> \/ orig[Len(orig)] # 0)

\* a d that ends in zero bytes comes back shorter
C6_Witness ==
    /\ scheme = "zeros_padding" /\ IsRoundTrip
    /\ Len(orig) = 3 /\ orig[3] = 0 /\ orig[2] = 0 /\ orig[1] # 0
    /\ Len(pad_data) > Len(orig)
    /\ Len(ret.value) = 1

---------------------------------------------------------------------------
(* C7 *)

\* the value of a big-endian byte string, modulo m
RECURSIVE ValMod(_, _)
ValMod(s, m) == IF s = <<>> THEN 0
                ELSE (ValMod(SubSeq(s, 1, Len(s) - 1), m) * 256 + s[Len(s)]) % m

\* the value of a big-endian byte string, or cap when the value is larger
RECURSIVE CapVal(_, _)
CapVal(s, cap) ==
    IF s = <<>> THEN 0
    ELSE LET x == CapVal(SubSeq(s, 1, Len(s) - 1), cap) * 256 + s[Len(s)]
         IN  IF x > cap THEN cap ELSE x

Modulus == 2^23 - 15

\* the low CtrBytes bytes of the nonce, and whether the bytes above them are zero
LowBytes(n) ==
    [i \in 1..CtrBytes |->
        IF Len(n) - CtrBytes + i >= 1 THEN n[Len(n) - CtrBytes + i] ELSE 0]
HighBytesZero(n) == \A i \in 1..(Len(n) - CtrBytes) : n[i] = 0

\* 2^128 - 1 - v for the nonce's value v < 2^128, capped above MaxCalls
Headroom(n) == CapVal([i \in 1..CtrBytes |-> 255 - LowBytes(n)[i]], MaxCalls + 1)

\* v + j < 2^128
Fits(n, j) == HighBytesZero(n) /\ j <= Headroom(n)

\* the call returned the CtrBytes-byte big-endian encoding of v + j
Returned(j) ==
    /\ ctr.status = "ok"
    /\ Len(ctr.value) = CtrBytes
    /\ \A i \in 1..CtrBytes : ctr.value[i] \in 0..255
    /\ ValMod(ctr.value, Modulus) = (ValMod(nonce, Modulus) + j) % Modulus

\* the stored value is v + j
Stored(j) == ValMod(c, Modulus) = (ValMod(nonce, Modulus) + j) % Modulus

\* C7 as stated: the k-th call of a Counter made from a bytes value of value v
\* returns the 16-byte big-endian encoding of v + k - 1 and leaves v + k stored.
C7_CounterSequenceUnbounded ==
    constructed /\ calls >= 1 => Returned(calls - 1) /\ Stored(calls)

\* after k calls: the k-th returned the encoding of v + k - 1 and v + k is stored
\* while v + k - 1 < 2^128; past that the call raised and the stored value is
\* the one the last successful call left
CounterState ==
    /\ constructed /\ calls = 0 => Stored(0)
    /\ constructed /\ calls >= 1 =>
          IF Fits(nonce, calls - 1)
          THEN Returned(calls - 1) /\ Stored(calls)
          ELSE /\ ctr.status = "OverflowError"
               /\ Stored(IF HighBytesZero(nonce) THEN Headroom(nonce) + 1 ELSE 0)

\* a step that changes the stored value of a constructed Counter is a call that
\* returned, and a call that raised leaves the stored value alone
CounterStep ==
    /\ constructed /\ c' # c => calls' = calls + 1 /\ ctr'.status = "ok"
    /\ constructed /\ calls' = calls + 1 /\ ctr'.status # "ok" => c' = c

\* C7 amended: so it is while v + k - 1 < 2^128; a call made when the stored
\* value has reached 2^128 raises OverflowError and leaves the stored value as
\* it was; nothing but a call changes the stored value.
C7_CounterSequence == []CounterState /\ [][CounterStep]_vars

\* the second call returns 65536 after the first returned 65535: a carry
\* through two bytes
C7_Witness ==
    /\ constructed /\ calls = 2 /\ nonce = <<255, 255>>
    /\ ctr.status = "ok"
    /\ ctr.value[CtrBytes] = 0 /\ ctr.value[CtrBytes - 1] = 0
    /\ ctr.value[CtrBytes - 2] = 1

---------------------------------------------------------------------------
(* C8 *)

\* C8: BitPadding unpad of any p: with s = p without its trailing zero bytes,
\* it returns s without its last byte when s ends in 0x80, and p itself
\* otherwise; it raises nothing.
C8_BitUnpad ==
    scheme = "bit_padding" /\ IsUnpadCall =>
        /\ ret.status = "ok"
        /\ \E k \in 0..Len(pad_data) :
              LET s == [i \in 1..k |-> pad_data[i]]
              IN  /\ IsStripped(s, pad_data)
                  /\ IF s # <<>> /\ s[k] = 128
                     THEN ret.value = DropLast(s, 1)
                     ELSE ret.value = pad_data

\* a marker followed by a zero byte is found and removed
C8_Witness ==
    /\ scheme = "bit_padding" /\ IsUnpadCall /\ ~chained
    /\ pad_data = <<3, 128, 0>>
    /\ ret.value = <<3>>

---------------------------------------------------------------------------
(* C9 *)

\* C9: for a non-empty p with last byte a, ISO10126 unpad always, and PKCS7
\* unpad when the last a bytes of p are all a, returns the first len(p) - a
\* bytes of p: nothing when a >= len(p), p itself when a = 0.
C9_TrailerStripsDeclaredAmount ==
    /\ IsUnpadCall /\ pad_data # <<>>
    /\ scheme = "ISO_10126" \/ (scheme = "PKCS7" /\ PKCS7Match(pad_data))
    => /\ ret.status = "ok"
       /\ ret.value = DropLast(pad_data, pad_data[Len(pad_data)])

---------------------------------------------------------------------------
(* C10 *)

\* what a padding mismatch error looks like to the caller
MismatchErrors == {"TypeError"}

\* C10: an UNPAD call without a block size, on any p, returns a prefix of p
\* or, for PKCS7 and ANSI_X923 only, ends in a padding mismatch error; it
\* fails in no other way.
C10_UnpadTotal ==
    IsUnpadCall /\ length = <<>> =>
        \/ ret.status = "ok" /\ IsPrefix(ret.value, pad_data)
        \/ scheme \in {"PKCS7", "ANSI_X923"} /\ ret.status \in MismatchErrors

=============================================================================
